---- MODULE Spec2Model ----
(***************************************************************************)
(* A model of neutronpy's Data class (src/neutronpy/core.py): the point    *)
(* cloud, its construction, the tolerance merge (combine_data, + and -),   *)
(* and the parallel grid binner (bin, _bin_parallel).                      *)
(*                                                                         *)
(* Numbers.  Coordinates of Q are integers in units of 1e-5 of the         *)
(* source's floating point unit, so the default tolerance 5e-4 is 50.      *)
(* Counts (detector, monitor, time) are integers.  A numpy array is a      *)
(* sequence; Q is a sequence of 5-tuples (h, k, l, e, temp).  Python's     *)
(* 0-based index c is the 1-based index c + 1 here.                        *)
(***************************************************************************)
EXTENDS Integers, Sequences, FiniteSets, TLC

VARIABLES
    self,       \* the receiver: a Data object
    qstep,      \* self._qstep, set by bin
    right,      \* the right operand of + or -, a Data object (or None)
    args,       \* the incoming dictionaries of combine_data, as the call leaves them
    ret,        \* what the last call returned (None, or a Data object)
    err,        \* the exception the last call raised, or "none"
    op,         \* the last call
    pre,        \* history: the receiver as the call found it
    argsIn,     \* history: the incoming dictionaries as passed
    kw,         \* history: the keyword arguments of the call (to_bin for bin)
    locals,     \* combine_data's local Q, detector, monitor, time after its loop
    expr,       \* history: the operands of a chain of +, in the order combined
    pool        \* the binner's worker pool: grid Q, chunks, outputs, join state

vars == <<self, qstep, right, args, ret, err, op, pre, argsIn, kw, locals, expr, pool>>

----------------------------------------------------------------------------
(* Bounds of the model *)

\* rows of the receiver plus rows of all incoming sets of one call
MaxRows == 3
\* rows of one operand of a chain of +
MaxOperand == 2
\* rows of the cloud that is binned
MaxSource == 2
\* rows of the grid of one bin call
MaxCells == 4
\* worker processes of the binner's pool (cpu_count())
MaxProcs == 2
\* length of an array handed to the constructor
MaxLen == 3
\* scalings of one constructed cloud
MaxScalings == 2
\* rows of the cloud whose intensity is read and integrated
MaxPoints == 3
\* incoming sets of one combine_data call
MaxSets == 2

(* Program constants *)

\* Q has five columns: h, k, l, e, temp
NAxes == 5
\* the default tolerance 5.e-4 on every axis, in units of 1e-5
DefaultTol == 50

NoneVal == [kind |-> "None"]

\* an empty **kwargs
NoKwargs == [x \in {} |-> 0]

Axes == 1..NAxes

----------------------------------------------------------------------------
(* numpy helpers *)

Abs(x) == IF x < 0 THEN -x ELSE x

Range(s) == {s[i] : i \in DOMAIN s}

\* arr[:, c] of an N x 5 array
Col(Q, c) == [i \in 1..Len(Q) |-> Q[i][c]]

\* arr[order]: fancy indexing by an index array
Take(arr, order) == [i \in 1..Len(order) |-> arr[order[i]]]

\* nan, which np.average gives for an empty slice.  Counts are not negative
\* where the model averages, so -1 is free to stand for it.
NaN == -1

\* np.nanmax of a non-empty array: the largest element that is not nan, and
\* nan when all are
NanMax(arr) ==
    IF \A i \in DOMAIN arr : arr[i] = NaN THEN NaN
    ELSE CHOOSE m \in Range(arr) \ {NaN} : \A x \in Range(arr) \ {NaN} : x <= m

\* np.delete(arr, idx, 0): the rows whose index is not in idx
NpDelete(arr, idx) ==
    LET keep == SelectSeq([i \in 1..Len(arr) |-> i], LAMBDA i : i \notin idx)
    IN  Take(arr, keep)

\* Comparison of rows a and b under np.lexsort(keys): the LAST key is the
\* primary one.  -1, 0 or 1; k is the key looked at, from Len(keys) down.
RECURSIVE LexCmp(_, _, _, _)
LexCmp(keys, a, b, k) ==
    IF k = 0 THEN 0
    ELSE IF keys[k][a] < keys[k][b] THEN -1
    ELSE IF keys[k][a] > keys[k][b] THEN 1
    ELSE LexCmp(keys, a, b, k - 1)

\* x put into the sorted index list s behind every index that is not greater
RECURSIVE LexInsertBeforeEqual(_, _, _)
LexInsertBeforeEqual(keys, s, x) ==
    IF s = << >> THEN <<x>>
    ELSE IF LexCmp(keys, x, s[Len(s)], Len(keys)) > 0 THEN Append(s, x)
    ELSE Append(LexInsertBeforeEqual(keys, SubSeq(s, 1, Len(s) - 1), x), s[Len(s)])
RECURSIVE LexInsert(_, _, _)
LexInsert(keys, s, x) ==
    IF s = << >> THEN <<x>>
    ELSE IF LexCmp(keys, x, s[Len(s)], Len(keys)) >= 0 THEN Append(s, x)
    ELSE Append(LexInsert(keys, SubSeq(s, 1, Len(s) - 1), x), s[Len(s)])

RECURSIVE LexSortUpTo(_, _)
LexSortUpTo(keys, n) ==
    IF n = 0 THEN << >> ELSE LexInsert(keys, LexSortUpTo(keys, n - 1), n)

\* np.lexsort(keys): the stable permutation that sorts n rows
LexSort(keys, n) == LexSortUpTo(keys, n)

----------------------------------------------------------------------------
(* Data.__init__ *)

\* An argument of the constructor is a number or an array.
Num(v) == [num |-> v]
Arr(s) == [arr |-> s]
IsNumber(x) == "num" \in DOMAIN x

\* [arg] * n
Replicate(v, n) == [i \in 1..n |-> v]

SetMax(S) == CHOOSE m \in S : \A x \in S : x <= m

\* n_dim: the largest length among the arguments that are not numbers, 1 when
\* all are numbers (max of an empty list raises ValueError)
NDim(a) ==
    LET items == <<a.h, a.k, a.l, a.e, a.temp, a.detector, a.monitor, a.time>>
        lens  == {Len(items[i].arr) : i \in {j \in DOMAIN items : ~IsNumber(items[j])}}
    IN  IF lens = {} THEN 1 ELSE SetMax(lens)

\* The value a column setter (h, k, l, e, temp) is handed by __init__
AxisValue(x, n) == IF IsNumber(x) THEN Replicate(x.num, n) ELSE x.arr

\* self.Q[:, c] = np.array(value): numpy accepts a value of the column's length
\* and broadcasts a value of length 1; anything else raises ValueError
SetterAccepts(value, n) == Len(value) = n \/ Len(value) = 1

\* the column as stored
SetterStores(value, n) == IF Len(value) = n THEN value ELSE Replicate(value[1], n)

\* The value a plain attribute (detector, monitor, time) is given by __init__
CountValue(x, n) == IF IsNumber(x) THEN Replicate(x.num, n) ELSE x.arr

\* setattr(self, key, value) for key in kwargs, on the fields the model keeps
ApplyKwargs(obj, kwargs) ==
    [f \in DOMAIN obj |-> IF f \in DOMAIN kwargs THEN kwargs[f] ELSE obj[f]]

\* The end of __init__: detector, monitor and time become attributes as they
\* are, m0 and t0 are np.nanmax of monitor and time (ValueError on an empty
\* array), time_norm is False, and the keyword arguments are set last
NewObject(Q, detector, monitor, time, kwargs) ==
    IF monitor = << >> \/ time = << >>
    THEN [err |-> "ValueError", obj |-> NoneVal]
    ELSE [err |-> "none",
          obj |-> ApplyKwargs([Q |-> Q, detector |-> detector, monitor |-> monitor,
                               time |-> time, m0 |-> NanMax(monitor),
                               t0 |-> NanMax(time), time_norm |-> FALSE], kwargs)]

\* whether the setter of an axis accepts the argument x, and what it stores
AxisOk(x, n) == SetterAccepts(AxisValue(x, n), n)
AxisColumn(x, n) == SetterStores(AxisValue(x, n), n)

\* __init__ with Q None: self.Q = np.empty((n_dim, 5)), then the five setters
DataInitAxes(a, n) ==
    IF ~(AxisOk(a.h, n) /\ AxisOk(a.k, n) /\ AxisOk(a.l, n) /\ AxisOk(a.e, n)
         /\ AxisOk(a.temp, n))
    THEN [err |-> "ValueError", obj |-> NoneVal]
    ELSE NewObject([i \in 1..n |-> <<AxisColumn(a.h, n)[i], AxisColumn(a.k, n)[i],
                                     AxisColumn(a.l, n)[i], AxisColumn(a.e, n)[i],
                                     AxisColumn(a.temp, n)[i]>>],
                   CountValue(a.detector, n), CountValue(a.monitor, n),
                   CountValue(a.time, n), a.kwargs)

\* __init__ with Q given: self.Q = Q; n_dim is not bound, so a detector,
\* monitor or time that is a number raises NameError
DataInitQ(a) ==
    IF IsNumber(a.detector) \/ IsNumber(a.monitor) \/ IsNumber(a.time)
    THEN [err |-> "NameError", obj |-> NoneVal]
    ELSE NewObject(a.Q.arr, a.detector.arr, a.monitor.arr, a.time.arr, a.kwargs)

\* Data(h=..., ..., Q=..., **kwargs) without files: [err, obj]
DataInit(a) == IF a.Q = NoneVal THEN DataInitAxes(a, NDim(a)) ELSE DataInitQ(a)

\* The defaults of the constructor's signature
DefaultArgs ==
    [h |-> Num(0), k |-> Num(0), l |-> Num(0), e |-> Num(0), temp |-> Num(0),
     detector |-> Num(0), monitor |-> Num(0), time |-> Num(0), Q |-> NoneVal,
     kwargs |-> NoKwargs]

\* Data(Q=Q, monitor=monitor, detector=detector, time=time, **kwargs)
DataFromQ(Q, detector, monitor, time, kwargs) ==
    DataInit([DefaultArgs EXCEPT !.Q = Arr(Q), !.detector = Arr(detector),
                                 !.monitor = Arr(monitor), !.time = Arr(time),
                                 !.kwargs = kwargs])

----------------------------------------------------------------------------
(* Data.combine_data *)

\* np.abs(self.Q[j, :] - arg['Q'][i, :]) <= tols needs shapes (5,) and
\* tols.shape to broadcast: a tolerance vector of length 5 or of length 1
BroadcastOk(tols) == Len(tols) = NAxes \/ Len(tols) = 1

TolAt(tols, a) == IF Len(tols) = 1 THEN tols[1] ELSE tols[a]

\* np.all(np.abs(self.Q[j, :] - arg['Q'][i, :]) <= tols)
WithinTolAnyAxis(qs, qa, tols) == \E a \in Axes : Abs(qs[a] - qa[a]) <= TolAt(tols, a)
WithinTol(qs, qa, tols) == \A a \in Axes : Abs(qs[a] - qa[a]) <= TolAt(tols, a)

\* tols as combine_data uses it: the default, replaced by a tols keyword that
\* is present and not None
EffectiveTols(kwargs) ==
    IF "tols" \in DOMAIN kwargs /\ kwargs.tols # NoneVal
    THEN kwargs.tols.arr
    ELSE Replicate(DefaultTol, NAxes)

\* combine: the pairs [i, j], i over the incoming rows and j over the rows of
\* self.Q (the receiver as the call found it), in the order of the two loops
CombinePairs(selfQ, argQ, tols) ==
    LET m   == Len(selfQ)
        all == [p \in 1..(Len(argQ) * m) |-> <<((p - 1) \div m) + 1, ((p - 1) % m) + 1>>]
    IN  SelectSeq(all, LAMBDA pr : WithinTol(selfQ[pr[2]], argQ[pr[1]], tols))

\* for item in combine: arr[item[1]] += vals[item[0]]
RECURSIVE AccumulateOverwrite(_, _, _)
AccumulateOverwrite(arr, vals, combine) ==
    IF combine = << >> THEN arr
    ELSE AccumulateOverwrite([arr EXCEPT ![combine[1][2]] = vals[combine[1][1]]], vals,
                             Tail(combine))
RECURSIVE Accumulate(_, _, _)
Accumulate(arr, vals, combine) ==
    IF combine = << >> THEN arr
    ELSE Accumulate([arr EXCEPT ![combine[1][2]] = @ + vals[combine[1][1]]], vals,
                    Tail(combine))

DictKeys == {"Q", "monitor", "detector", "time"}

\* if len(combine) > 0: arg[key] = np.delete(arg[key], combine[:, 0], 0)
RemainingKeepsMatched(arg, combine) == arg
Remaining(arg, combine) ==
    [key \in DOMAIN arg |->
        IF key \in DictKeys
        THEN NpDelete(arg[key], {combine[p][1] : p \in DOMAIN combine})
        ELSE arg[key]]

\* The accumulation of the matched rows and the concatenation of the rest
FoldMatchedTimeDropped(acc, arg, combine, left) ==
    [Q        |-> acc.Q \o left.Q,
     detector |-> Accumulate(acc.detector, arg.detector, combine) \o left.detector,
     monitor  |-> Accumulate(acc.monitor, arg.monitor, combine) \o left.monitor,
     time     |-> acc.time \o left.time,
     args     |-> Append(acc.args, left),
     err      |-> "none"]
FoldMatched(acc, arg, combine, left) ==
    [Q        |-> acc.Q \o left.Q,
     detector |-> Accumulate(acc.detector, arg.detector, combine) \o left.detector,
     monitor  |-> Accumulate(acc.monitor, arg.monitor, combine) \o left.monitor,
     time     |-> Accumulate(acc.time, arg.time, combine) \o left.time,
     args     |-> Append(acc.args, left),
     err      |-> "none"]

FoldCombine(acc, arg, combine) == FoldMatched(acc, arg, combine, Remaining(arg, combine))

\* One pass of the loop `for arg in args`.  acc holds the local Q, detector,
\* monitor and time, the dictionaries done so far and the exception raised.
FoldArg(acc, arg, selfQ, tols) ==
    IF "Q" \notin DOMAIN arg
    THEN [acc EXCEPT !.err = "KeyError", !.args = Append(@, arg)]
    ELSE IF Len(arg.Q) > 0 /\ Len(selfQ) > 0 /\ ~BroadcastOk(tols)
    THEN [acc EXCEPT !.err = "ValueError", !.args = Append(@, arg)]
    ELSE IF ~(DictKeys \subseteq DOMAIN arg)
    THEN [acc EXCEPT !.err = "KeyError", !.args = Append(@, arg)]
    ELSE FoldCombine(acc, arg, CombinePairs(selfQ, arg.Q, tols))

\* The loop over args: stops at the first exception, leaving the later
\* dictionaries as they were passed
RECURSIVE FoldArgs(_, _, _, _, _)
FoldArgs(acc, as, n, selfQ, tols) ==
    IF n > Len(as) THEN acc
    ELSE IF acc.err # "none"
    THEN FoldArgs([acc EXCEPT !.args = Append(@, as[n])], as, n + 1, selfQ, tols)
    ELSE FoldArgs(FoldArg(acc, as[n], selfQ, tols), as, n + 1, selfQ, tols)

\* order = np.lexsort([Q[:, i] for i in reversed(range(Q.shape[1]))])
MergeOrderUnreversed(Q) == LexSort([c \in Axes |-> Col(Q, c)], Len(Q))
MergeOrder(Q) == LexSort([c \in Axes |-> Col(Q, NAxes + 1 - c)], Len(Q))

\* Q[order], detector[order], monitor[order], time[order]
Reordered(m, order) ==
    [Q |-> Take(m.Q, order), detector |-> Take(m.detector, order),
     monitor |-> Take(m.monitor, order), time |-> Take(m.time, order)]

\* self.Q = ...; self.detector = ...; self.monitor = ...; self.time = ...
AssignedRefreshed(obj, srt) ==
    [obj EXCEPT !.Q = srt.Q, !.detector = srt.detector, !.monitor = srt.monitor,
                !.time = srt.time, !.m0 = NanMax(srt.monitor), !.t0 = NanMax(srt.time)]
Assigned(obj, srt) ==
    [obj EXCEPT !.Q = srt.Q, !.detector = srt.detector, !.monitor = srt.monitor,
                !.time = srt.time]

\* return Data(Q=Q[order], monitor=..., detector=..., time=...)
Returned(obj, new) == [self |-> obj, ret |-> new.obj, err |-> new.err]

\* The end of combine_data: return a new Data, or replace the receiver's
\* Q, detector, monitor and time and return None
StoreInPlaceAlways(obj, srt, kwargs) ==
    IF "ret" \in DOMAIN kwargs /\ kwargs.ret
    THEN [self |-> Assigned(obj, srt), ret |-> Assigned(obj, srt), err |-> "none"]
    ELSE [self |-> Assigned(obj, srt), ret |-> NoneVal, err |-> "none"]
StoreResult(obj, srt, kwargs) ==
    IF "ret" \in DOMAIN kwargs /\ kwargs.ret
    THEN Returned(obj, DataFromQ(srt.Q, srt.detector, srt.monitor, srt.time, NoKwargs))
    ELSE [self |-> Assigned(obj, srt), ret |-> NoneVal, err |-> "none"]

\* combine_data after the loop over args: m is what the loop left
LocalsOf(m) == [Q |-> m.Q, detector |-> m.detector, monitor |-> m.monitor, time |-> m.time]

AfterLoop(obj, m, r) ==
    [self |-> r.self, ret |-> r.ret, err |-> r.err, args |-> m.args, locals |-> LocalsOf(m)]

Finish(obj, m, kwargs) ==
    IF m.err # "none"
    THEN [self |-> obj, ret |-> NoneVal, err |-> m.err, args |-> m.args,
          locals |-> LocalsOf(m)]
    ELSE AfterLoop(obj, m, StoreResult(obj, Reordered(m, MergeOrder(m.Q)), kwargs))

\* self.combine_data(*as, **kwargs): [self, ret, err, args]
CombineData(obj, as, kwargs) ==
    Finish(obj,
           FoldArgs([Q |-> obj.Q, detector |-> obj.detector, monitor |-> obj.monitor,
                     time |-> obj.time, args |-> << >>, err |-> "none"],
                    as, 1, obj.Q, EffectiveTols(kwargs)),
           kwargs)

AddAttrs == {"Q", "detector", "monitor", "time"}

\* np.negative(arr)
NotNegated(arr) == arr
Negative(arr) == [i \in 1..Len(arr) |-> -arr[i]]

\* {'Q': right.Q, 'detector': right.detector (negated by -), ...}
Output(rhs, negate) ==
    [Q |-> rhs.Q,
     detector |-> IF negate THEN Negative(rhs.detector) ELSE rhs.detector,
     monitor |-> rhs.monitor, time |-> rhs.time]

\* the right operand keeps its arrays: the dictionary's entries are rebound
WithRight(r, rhs) ==
    [self |-> r.self, ret |-> r.ret, err |-> r.err, args |-> r.args,
     locals |-> r.locals, right |-> rhs]

\* self + rhs and self - rhs: the dictionary built from the right operand's
\* attributes, then combine_data(output, ret=True); a right operand without
\* one of the attributes raises AttributeError
AddSub(obj, rhs, negate) ==
    IF ~(AddAttrs \subseteq DOMAIN rhs)
    THEN [self |-> obj, ret |-> NoneVal, err |-> "AttributeError", args |-> << >>,
          locals |-> NoneVal, right |-> rhs]
    ELSE WithRight(CombineData(obj, <<Output(rhs, negate)>>, [ret |-> TRUE]), rhs)

----------------------------------------------------------------------------
(* The merge specification: one call of combine_data, + or - on a receiver *)

\* The measured rows the merge calls draw from: Q in units of 1e-5, then
\* detector, monitor and time.  The first is (1,0,0,0,0); the second is that
\* point plus 1e-5 on every axis; the third differs by 1 in temp only; the
\* fourth lies exactly 5e-4 away on every axis; the fifth is off by 6e-4 in k
\* only and sorts before the others by h.
MergeRows ==
    { [q |-> <<100000, 0, 0, 0, 0>>,      d |-> 10, m |-> 5, t |-> 1],
      [q |-> <<100001, 1, 1, 1, 1>>,      d |-> 3,  m |-> 2, t |-> 2],
      [q |-> <<100000, 0, 0, 0, 100000>>, d |-> 4,  m |-> 1, t |-> 3],
      [q |-> <<100050, 50, 50, 50, 50>>,  d |-> 2,  m |-> 3, t |-> 5],
      [q |-> <<99999, 60, 0, 0, 0>>,      d |-> 7,  m |-> 4, t |-> 4] }

RowSeqs(Rows, lo, hi) == UNION {[1..n -> Rows] : n \in lo..hi}

\* the dictionary a loader hands over for the rows rs
DictOf(rs) ==
    [Q        |-> [i \in 1..Len(rs) |-> rs[i].q],
     detector |-> [i \in 1..Len(rs) |-> rs[i].d],
     monitor  |-> [i \in 1..Len(rs) |-> rs[i].m],
     time     |-> [i \in 1..Len(rs) |-> rs[i].t]]

\* the Data object constructed from the rows rs (rs not empty)
DataOfDict(d) == DataFromQ(d.Q, d.detector, d.monitor, d.time, NoKwargs).obj
DataOf(rs) == DataOfDict(DictOf(rs))

\* the ways to cut L rows into s consecutive sets
Cuts(L, s) == {f \in [1..(s - 1) -> 0..L] : \A i \in 1..(s - 2) : f[i] <= f[i + 1]}

SplitRows(rs, f, s) ==
    [n \in 1..s |-> DictOf(SubSeq(rs, (IF n = 1 THEN 0 ELSE f[n - 1]) + 1,
                                      IF n = s THEN Len(rs) ELSE f[n]))]

\* the tols keywords the merge calls are given: none, or a vector that
\* widens the tolerance in k
MergeKwargs == {NoKwargs, [tols |-> Arr(<<50, 60, 50, 50, 50>>)]}

InitCommon ==
    /\ qstep = NoneVal
    /\ right = NoneVal
    /\ args = << >>
    /\ ret = NoneVal
    /\ err = "none"
    /\ op = "init"
    /\ argsIn = << >>
    /\ kw = NoKwargs
    /\ locals = NoneVal
    /\ expr = << >>
    /\ pool = NoneVal

InitMerge ==
    /\ \E rs \in RowSeqs(MergeRows, 1, MaxRows) : self = DataOf(rs)
    /\ pre = self
    /\ InitCommon

\* self.combine_data(*as, **kwargs)
Called(r, as, kwargs, name) ==
    /\ self' = r.self
    /\ args' = r.args
    /\ locals' = r.locals
    /\ ret' = r.ret
    /\ err' = r.err
    /\ op' = name
    /\ pre' = self
    /\ argsIn' = as
    /\ kw' = kwargs
    /\ UNCHANGED <<qstep, expr, pool>>

CallCombineData(as, kwargs, name) ==
    /\ Called(CombineData(self, as, kwargs), as, kwargs, name)
    /\ UNCHANGED right

Combine ==
    /\ op = "init"
    /\ \E s \in 1..MaxSets : \E rs \in RowSeqs(MergeRows, 0, MaxRows - Len(self.Q)) :
          \E f \in Cuts(Len(rs), s) : \E k \in MergeKwargs :
              CallCombineData(SplitRows(rs, f, s), k, "combine")

\* kwargs with ret=True added
WithRet(k) == [x \in DOMAIN k \cup {"ret"} |-> IF x = "ret" THEN TRUE ELSE k[x]]

CombineRet ==
    /\ op = "init"
    /\ \E s \in 1..MaxSets : \E rs \in RowSeqs(MergeRows, 0, MaxRows - Len(self.Q)) :
          \E f \in Cuts(Len(rs), s) : \E k \in MergeKwargs :
              CallCombineData(SplitRows(rs, f, s), WithRet(k), "combine_ret")

\* self + rhs (negate false) or self - rhs (negate true)
CalledOperator(r, rhs, name) ==
    /\ Called(r, <<rhs>>, NoKwargs, name)
    /\ right' = r.right

CallAddSub(rhs, negate, name) == CalledOperator(AddSub(self, rhs, negate), rhs, name)

Add ==
    /\ op = "init"
    /\ \E rs \in RowSeqs(MergeRows, 1, MaxRows - Len(self.Q)) :
          CallAddSub(DataOf(rs), FALSE, "add")

Sub ==
    /\ op = "init"
    /\ \E rs \in RowSeqs(MergeRows, 1, MaxRows - Len(self.Q)) :
          CallAddSub(DataOf(rs), TRUE, "sub")

NextMerge == Combine \/ CombineRet \/ Add \/ Sub

SpecMerge == InitMerge /\ [][NextMerge]_vars

----------------------------------------------------------------------------
(* The merge with faulty input: a dictionary or right operand that lacks a  *)
(* field, and tols keywords of other lengths than five                     *)

\* the rows the faulty calls draw from: (1,0,0,0,0) and the point 1e-5 away
FaultRows == {r \in MergeRows : r.q[1] \in {100000, 100001} /\ r.q[5] < 100000}

\* tols absent, None, and of length 0, 1, 3 and 5
FaultKwargs ==
    {NoKwargs, [tols |-> NoneVal], [tols |-> Arr(<< >>)], [tols |-> Arr(<<50>>)],
     [tols |-> Arr(<<50, 50, 50>>)], [tols |-> Arr(<<50, 50, 50, 50, 50>>)]}

\* an object or dictionary without the field key
Without(d, key) == [x \in DOMAIN d \ {key} |-> d[x]]

\* the incoming sets with the field key of set n missing
DropKey(as, n, key) == [as EXCEPT ![n] = Without(@, key)]

CombineFaulty ==
    /\ op = "init"
    /\ \E s \in 1..MaxSets : \E rs \in RowSeqs(FaultRows, 0, MaxRows - Len(self.Q)) :
          \E f \in Cuts(Len(rs), s) : \E k \in FaultKwargs :
              \E n \in 1..s : \E key \in DictKeys \cup {"none"} :
                  CallCombineData(DropKey(SplitRows(rs, f, s), n, key), k, "combine")

CombineRetFaulty ==
    /\ op = "init"
    /\ \E s \in 1..MaxSets : \E rs \in RowSeqs(FaultRows, 0, MaxRows - Len(self.Q)) :
          \E f \in Cuts(Len(rs), s) : \E k \in FaultKwargs :
              \E n \in 1..s : \E key \in DictKeys \cup {"none"} :
                  CallCombineData(DropKey(SplitRows(rs, f, s), n, key), WithRet(k),
                                  "combine_ret")

AddFaulty ==
    /\ op = "init"
    /\ \E rs \in RowSeqs(FaultRows, 1, MaxRows - Len(self.Q)) :
          \E key \in AddAttrs \cup {"none"} :
              CallAddSub(Without(DataOf(rs), key), FALSE, "add")

SubFaulty ==
    /\ op = "init"
    /\ \E rs \in RowSeqs(FaultRows, 1, MaxRows - Len(self.Q)) :
          \E key \in AddAttrs \cup {"none"} :
              CallAddSub(Without(DataOf(rs), key), TRUE, "sub")

NextMergeFaulty == CombineFaulty \/ CombineRetFaulty \/ AddFaulty \/ SubFaulty

SpecMergeFaulty == InitMerge /\ [][NextMergeFaulty]_vars

----------------------------------------------------------------------------
(* Chains of +: three clouds combined in any order and grouping *)

\* the rows the operands draw from: two measurements at (1,0,0,0,0) with
\* different counts, the point 1e-5 away, and two points out of tolerance
ChainRows ==
    {r \in MergeRows : r.q[1] # 100050} \cup
    { [q |-> <<100000, 0, 0, 0, 0>>, d |-> 1, m |-> 6, t |-> 6] }

OperandRows == RowSeqs(ChainRows, 1, MaxOperand)

\* no row of rs is within the default tolerance of a row of ss on all axes
Apart(rs, ss) ==
    \A i \in DOMAIN rs : \A j \in DOMAIN ss :
        ~WithinTol(rs[i].q, ss[j].q, Replicate(DefaultTol, NAxes))

InitChain ==
    /\ \E a \in OperandRows :
          \E b \in {x \in OperandRows : Apart(a, x)} :
              \E c \in {x \in OperandRows : Apart(a, x) /\ Apart(b, x)} :
                  argsIn = <<DataOf(a), DataOf(b), DataOf(c)>>
    /\ self = NoneVal
    /\ pre = NoneVal
    /\ qstep = NoneVal
    /\ right = NoneVal
    /\ args = << >>
    /\ ret = NoneVal
    /\ err = "none"
    /\ op = "init"
    /\ kw = NoKwargs
    /\ locals = NoneVal
    /\ expr = << >>
    /\ pool = NoneVal

\* left + rhs was evaluated: r is what AddSub gave
Summed(r, order, name) ==
    /\ self' = r.self
    /\ right' = r.right
    /\ args' = r.args
    /\ locals' = r.locals
    /\ ret' = r.ret
    /\ err' = r.err
    /\ expr' = order
    /\ op' = name
    /\ UNCHANGED <<qstep, pre, argsIn, kw, pool>>

\* the operand a chain has not used yet
Third(order) == CHOOSE z \in 1..3 : z \notin Range(order)

\* x + y for two of the three clouds
AddTwo ==
    /\ op = "init"
    /\ \E x \in 1..3 : \E y \in (1..3) \ {x} :
          Summed(AddSub(argsIn[x], argsIn[y], FALSE), <<x, y>>, "pair")

\* (x + y) + z
AddThirdRight ==
    /\ op = "pair"
    /\ err = "none"
    /\ Summed(AddSub(ret, argsIn[Third(expr)], FALSE), Append(expr, Third(expr)), "left_first")

\* z + (x + y)
AddThirdLeft ==
    /\ op = "pair"
    /\ err = "none"
    /\ Summed(AddSub(argsIn[Third(expr)], ret, FALSE), <<Third(expr)>> \o expr, "right_first")

NextChain == AddTwo \/ AddThirdRight \/ AddThirdLeft

SpecChain == InitChain /\ [][NextChain]_vars

----------------------------------------------------------------------------
(* Data.bin and Data._bin_parallel *)

\* np.linspace(lo, hi, n, retstep=True) for n > 1: the samples and the step
LinspaceOpenEnd(lo, hi, n) ==
    [q |-> [i \in 1..n |-> lo + (i - 1) * ((hi - lo) \div n)], step |-> (hi - lo) \div n]
Linspace(lo, hi, n) ==
    [q |-> [i \in 1..n |-> lo + (i - 1) * ((hi - lo) \div (n - 1))],
     step |-> (hi - lo) \div (n - 1)]

\* One axis of to_bin, [lower, upper, count]: the midpoint and the width for
\* count 1, np.linspace otherwise
AxisSamples(arg) ==
    IF arg[3] = 1
    THEN [q |-> <<(arg[1] + arg[2]) \div 2>>, step |-> arg[2] - arg[1]]
    ELSE Linspace(arg[1], arg[2], arg[3])

\* the samples and steps of the five axes, in the order h, k, l, e, temp
GridAxes(to_bin) ==
    <<AxisSamples(to_bin.h), AxisSamples(to_bin.k), AxisSamples(to_bin.l),
      AxisSamples(to_bin.e), AxisSamples(to_bin.temp)>>

\* Row r (from 0) of np.vstack(item.flatten() for item in np.meshgrid(*q)).T:
\* meshgrid's default indexing 'xy' gives arrays of shape (n_k, n_h, n_l, n_e,
\* n_temp), so k runs slowest, then h, l, e, and temp fastest
MeshRow(ax, r) ==
    <<ax[1].q[((r \div (Len(ax[5].q) * Len(ax[4].q) * Len(ax[3].q))) % Len(ax[1].q)) + 1],
      ax[2].q[(r \div (Len(ax[5].q) * Len(ax[4].q) * Len(ax[3].q) * Len(ax[1].q))) + 1],
      ax[3].q[((r \div (Len(ax[5].q) * Len(ax[4].q))) % Len(ax[3].q)) + 1],
      ax[4].q[((r \div Len(ax[5].q)) % Len(ax[4].q)) + 1],
      ax[5].q[(r % Len(ax[5].q)) + 1]>>

MeshGrid(ax) ==
    [r \in 1..(Len(ax[1].q) * Len(ax[2].q) * Len(ax[3].q) * Len(ax[4].q) * Len(ax[5].q))
        |-> MeshRow(ax, r - 1)]

\* Q[n * N // nprocs : (n + 1) * N // nprocs], n from 0
Chunk(Q, n, nprocs) ==
    SubSeq(Q, ((n * Len(Q)) \div nprocs) + 1, ((n + 1) * Len(Q)) \div nprocs)

\* the lexsort keys of axis j (from 0): [_Q[:, j - n] for n in reversed(range(5))],
\* a negative column index counting from the last column
AxisKeys(Q, j) == [x \in Axes |-> Col(Q, ((j - (NAxes - x) + NAxes) % NAxes) + 1)]

\* np.searchsorted(col, v, side='left') and side='right' on a sorted column
SearchLeft(col, v) == Cardinality({i \in DOMAIN col : col[i] < v})
SearchRight(col, v) == Cardinality({i \in DOMAIN col : col[i] <= v})

\* arr[c0:c1], a Python slice with 0 <= c0
PySlice(arr, c0, c1) == SubSeq(arr, c0 + 1, IF c1 < Len(arr) THEN c1 ELSE Len(arr))

RECURSIVE SeqSum(_)
SeqSum(arr) == IF arr = << >> THEN 0 ELSE Head(arr) + SeqSum(Tail(arr))

\* np.average(arr): nan for an empty array
Average(arr) == IF arr = << >> THEN NaN ELSE SeqSum(arr) \div Len(arr)

\* _Q, _mon, _det, _tim = _Q[_order], _mon[_order], _det[_order], _tim[_order]
Sorted(w, order) ==
    [w EXCEPT !.Q = Take(w.Q, order), !.mon = Take(w.mon, order),
              !.det = Take(w.det, order), !.tim = Take(w.tim, order)]

\* if chunk0 < chunk1: the working arrays are cut to [chunk0:chunk1]
CutAt(w, c0, c1) ==
    IF c0 < c1
    THEN [Q |-> SubSeq(w.Q, c0 + 1, c1), mon |-> SubSeq(w.mon, c0 + 1, c1),
          det |-> SubSeq(w.det, c0 + 1, c1), tim |-> SubSeq(w.tim, c0 + 1, c1),
          chunk0 |-> c0, chunk1 |-> c1]
    ELSE [w EXCEPT !.chunk0 = c0, !.chunk1 = c1]

Cut(w, j, lo, hi) ==
    CutAt(w, SearchLeft(Col(w.Q, j + 1), lo), SearchRight(Col(w.Q, j + 1), hi))

\* One pass of the loop over the axes j (from 0) for one grid row
Narrow(w, cell, step, j) ==
    Cut(Sorted(w, LexSort(AxisKeys(w.Q, j), Len(w.Q))), j,
        cell[j + 1] - (step[j + 1] \div 2), cell[j + 1] + (step[j + 1] \div 2))

RECURSIVE NarrowFrom(_, _, _, _)
NarrowFrom(w, cell, step, j) ==
    IF j = NAxes THEN w ELSE NarrowFrom(Narrow(w, cell, step, j), cell, step, j + 1)

\* monitor[i], detector[i], time[i] of one grid row: the averages of the
\* slices [chunk0:chunk1] of the working arrays the loop over the axes left
Means(w) ==
    <<Average(PySlice(w.mon, w.chunk0, w.chunk1)),
      Average(PySlice(w.det, w.chunk0, w.chunk1)),
      Average(PySlice(w.tim, w.chunk0, w.chunk1))>>

CellValues(obj, step, cell) ==
    Means(NarrowFrom([Q |-> obj.Q, mon |-> obj.monitor, det |-> obj.detector,
                      tim |-> obj.time, chunk0 |-> 0, chunk1 |-> 0], cell, step, 0))

\* self._bin_parallel(Q_chunk): (monitor, detector, time), kept row by row
BinParallel(obj, step, Q_chunk) ==
    [i \in 1..Len(Q_chunk) |-> CellValues(obj, step, Q_chunk[i])]

\* np.concatenate over the outputs, in the order of the list
RECURSIVE Concatenate(_)
Concatenate(outs) == IF outs = << >> THEN << >> ELSE Head(outs) \o Concatenate(Tail(outs))

\* Data(Q=Q, monitor=monitor, detector=detector, time=time, m0=self.m0, t0=self.t0)
Binned(obj, Q, cells) ==
    DataFromQ(Q, [i \in 1..Len(cells) |-> cells[i][2]], [i \in 1..Len(cells) |-> cells[i][1]],
              [i \in 1..Len(cells) |-> cells[i][3]], [m0 |-> obj.m0, t0 |-> obj.t0])

----------------------------------------------------------------------------
(* The binner specification: one call of bin on a cloud, its workers *)

\* The rows of the binned cloud.  Counts are multiples of MaxSource!, so that
\* the average of up to MaxSource of them is a whole number.
RECURSIVE Factorial(_)
Factorial(n) == IF n = 0 THEN 1 ELSE n * Factorial(n - 1)

SourceRows ==
    { [q |-> <<60, 60, 60, 60, 60>>,    d |-> 1 * Factorial(MaxSource), m |-> 2 * Factorial(MaxSource), t |-> 3 * Factorial(MaxSource)],
      [q |-> <<60, 120, -60, 60, 120>>, d |-> 4 * Factorial(MaxSource), m |-> 1 * Factorial(MaxSource), t |-> 1 * Factorial(MaxSource)],
      [q |-> <<120, 0, 0, 0, 120>>,     d |-> 2 * Factorial(MaxSource), m |-> 5 * Factorial(MaxSource), t |-> 2 * Factorial(MaxSource)],
      [q |-> <<60, 60, 60, 60, -100>>,  d |-> 7 * Factorial(MaxSource), m |-> 3 * Factorial(MaxSource), t |-> 5 * Factorial(MaxSource)] }

\* the bounds [lower, upper] of the five axes a bin call is given
GridRanges ==
    { <<<<0, 120>>, <<0, 120>>, <<0, 120>>, <<0, 120>>, <<0, 120>>>>,
      <<<<0, 120>>, <<0, 240>>, <<-120, 0>>, <<0, 120>>, <<0, 240>>>> }

\* the numbers of points of the five axes: a grid of at most MaxCells rows
GridCounts ==
    {n \in [Axes -> 1..MaxCells] : n[1] * n[2] * n[3] * n[4] * n[5] <= MaxCells}

\* the samples of [lo, hi, n] and half its step are whole numbers of the unit
Exact(lo, hi, n) ==
    IF n = 1 THEN (hi - lo) % 2 = 0 ELSE (hi - lo) % (2 * (n - 1)) = 0

ToBin(rg, n) ==
    [h |-> <<rg[1][1], rg[1][2], n[1]>>, k |-> <<rg[2][1], rg[2][2], n[2]>>,
     l |-> <<rg[3][1], rg[3][2], n[3]>>, e |-> <<rg[4][1], rg[4][2], n[4]>>,
     temp |-> <<rg[5][1], rg[5][2], n[5]>>]

\* the clouds that are binned: up to MaxSource different rows, in any order
SourceClouds ==
    {rs \in RowSeqs(SourceRows, 1, MaxSource) :
        \A i \in DOMAIN rs : \A j \in DOMAIN rs : i # j => rs[i] # rs[j]}

InitBin ==
    /\ \E rs \in SourceClouds : self = DataOf(rs)
    /\ pre = self
    /\ InitCommon

\* bin up to pool.map: the grid, self._qstep, the chunks, and a pool whose
\* workers have returned nothing yet
Started(ax, Q, nprocs, to_bin) ==
    /\ qstep' = [c \in Axes |-> ax[c].step]
    /\ pool' = [Q |-> Q,
                nprocs |-> nprocs,
                chunks |-> [n \in 1..nprocs |-> Chunk(Q, n - 1, nprocs)],
                outputs |-> [n \in 1..nprocs |-> NoneVal],
                finished |-> << >>]
    /\ kw' = to_bin
    /\ op' = "bin_map"
    /\ pre' = self
    /\ UNCHANGED <<self, right, args, ret, err, argsIn, locals, expr>>

StartGrid(ax, nprocs, to_bin) == Started(ax, MeshGrid(ax), nprocs, to_bin)

BinStart ==
    /\ op = "init"
    /\ \E rg \in GridRanges : \E n \in GridCounts : \E nprocs \in 1..MaxProcs :
          /\ \A c \in Axes : Exact(rg[c][1], rg[c][2], n[c])
          /\ StartGrid(GridAxes(ToBin(rg, n)), nprocs, ToBin(rg, n))

\* a worker of the pool runs _call_bin_parallel on its chunk and returns
WorkerReturns ==
    /\ op = "bin_map"
    /\ \E n \in 1..pool.nprocs :
          /\ pool.outputs[n] = NoneVal
          /\ pool' = [pool EXCEPT !.outputs[n] = [out |-> BinParallel(self, qstep, pool.chunks[n])],
                                  !.finished = Append(@, n)]
    /\ UNCHANGED <<self, qstep, right, args, ret, err, op, pre, argsIn, kw, locals, expr>>

\* the outputs of pool.map, in the order of the chunks
OutputsInCompletionOrder(pl) == [i \in 1..pl.nprocs |-> pl.outputs[pl.finished[i]].out]
MapOutputs(pl) == [n \in 1..pl.nprocs |-> pl.outputs[n].out]

BinReturned(new) ==
    /\ ret' = new.obj
    /\ err' = new.err
    /\ op' = "bin"
    /\ UNCHANGED <<self, qstep, right, args, pre, argsIn, kw, locals, expr, pool>>

\* pool.map returns when every chunk is done; bin concatenates and returns
BinJoin ==
    /\ op = "bin_map"
    /\ \A n \in 1..pool.nprocs : pool.outputs[n] # NoneVal
    /\ BinReturned(Binned(self, pool.Q, Concatenate(MapOutputs(pool))))

NextBin == BinStart \/ WorkerReturns \/ BinJoin

SpecBin == InitBin /\ [][NextBin]_vars

----------------------------------------------------------------------------
(* The construction specification: Data(...) from per-axis inputs or from a
   Q matrix, and scalings of what it built *)

\* self.detector *= right; return self
Mul(obj, factor) == [obj EXCEPT !.detector = [i \in DOMAIN @ |-> @[i] * factor]]

\* the values an argument takes: the default number, or an array of a length
\* up to MaxLen
CtorValues == {Num(0)} \cup {Arr([i \in 1..n |-> i]) : n \in 0..MaxLen}

\* Q is left out, or is a matrix of two rows
CtorQ == {NoneVal, Arr(<<<<0, 0, 0, 0, 0>>, <<100, 0, 0, 0, 0>>>>)}

InitCtor ==
    /\ self = NoneVal
    /\ pre = NoneVal
    /\ InitCommon

Constructed(a, new) ==
    /\ ret' = new.obj
    /\ err' = new.err
    /\ argsIn' = <<a>>
    /\ op' = "ctor"
    /\ UNCHANGED <<self, qstep, right, args, pre, kw, locals, expr, pool>>

ConstructWith(a) == Constructed(a, DataInit(a))

Construct ==
    /\ op = "init"
    /\ \E h \in CtorValues : \E k \in CtorValues : \E detector \in CtorValues :
       \E monitor \in CtorValues : \E time \in CtorValues : \E Q \in CtorQ :
          ConstructWith([DefaultArgs EXCEPT !.h = h, !.k = k, !.detector = detector,
                                            !.monitor = monitor, !.time = time, !.Q = Q])

Scale ==
    /\ op \in {"ctor", "mul"}
    /\ err = "none"
    /\ Len(expr) < MaxScalings
    /\ \E f \in {0, 2} :
          /\ ret' = Mul(ret, f)
          /\ expr' = Append(expr, f)
    /\ op' = "mul"
    /\ UNCHANGED <<self, qstep, right, args, err, pre, argsIn, kw, locals, pool>>

NextCtor == Construct \/ Scale

SpecCtor == InitCtor /\ [][NextCtor]_vars

----------------------------------------------------------------------------
(* Data.intensity, Data.error, Data.bg_estimate, Data.integrate *)

\* np.sqrt of a count: nan below zero.  The counts the model takes roots of
\* are squares.
Sqrt(n) == IF n < 0 THEN NaN ELSE CHOOSE r \in 0..n : r * r = n

\* The object after intensity was read: a reference that is 0 (t0 with
\* time_norm, m0 without) has been set to np.nanmax of its column
AfterIntensity(obj) ==
    IF obj.time_norm
    THEN IF obj.t0 = 0 THEN [obj EXCEPT !.t0 = NanMax(obj.time)] ELSE obj
    ELSE IF obj.m0 = 0 THEN [obj EXCEPT !.m0 = NanMax(obj.monitor)] ELSE obj

\* counts / self.time * self.t0 with time_norm, counts / self.monitor * self.m0
\* without.  The quotients of the model's counts are whole numbers.
Normalized(counts, obj) ==
    IF obj.time_norm
    THEN [i \in DOMAIN counts |->
            IF counts[i] = NaN THEN NaN ELSE (counts[i] \div obj.time[i]) * obj.t0]
    ELSE [i \in DOMAIN counts |->
            IF counts[i] = NaN THEN NaN ELSE (counts[i] \div obj.monitor[i]) * obj.m0]

\* the value of self.intensity, for an object whose reference was looked at
IntensityValues(obj) ==
    IF obj.time_norm
    THEN [i \in DOMAIN obj.detector |-> (obj.detector[i] \div obj.time[i]) * obj.t0]
    ELSE [i \in DOMAIN obj.detector |-> (obj.detector[i] \div obj.monitor[i]) * obj.m0]

\* self.intensity: the object as the read leaves it, and the value
Intensity(obj) ==
    [self |-> AfterIntensity(obj), value |-> IntensityValues(AfterIntensity(obj))]

\* self.error: np.sqrt(self.detector) over the column times the reference as
\* it is stored
Error(obj) == Normalized([i \in DOMAIN obj.detector |-> Sqrt(obj.detector[i])], obj)

\* min(arr) of a non-empty array
SeqMin(arr) == CHOOSE m \in Range(arr) : \A x \in Range(arr) : m <= x

\* self.bg_estimate(bg_params): [self, ret, err].  'percent' reads intensity
\* and then enters a with statement on an ndarray, which is no context
\* manager: AttributeError (TypeError from Python 3.11 on).
BgEstimate(obj, bg_params) ==
    IF bg_params.type = "constant"
    THEN [self |-> obj, ret |-> bg_params.value, err |-> "none"]
    ELSE IF bg_params.type = "percent"
    THEN [self |-> AfterIntensity(obj), ret |-> NoneVal, err |-> "AttributeError"]
    ELSE IF bg_params.type = "minimum"
    THEN [self |-> AfterIntensity(obj), ret |-> SeqMin(Intensity(obj).value), err |-> "none"]
    ELSE [self |-> obj, ret |-> 0, err |-> "none"]

\* np.where(bounds)[0]: the indices where the mask holds, ascending
RECURSIVE WhereUpTo(_, _)
WhereUpTo(mask, n) ==
    IF n = 0 THEN << >>
    ELSE IF mask[n] THEN Append(WhereUpTo(mask, n - 1), n) ELSE WhereUpTo(mask, n - 1)

Where(mask) == WhereUpTo(mask, Len(mask))

\* np.trapz(y, x=x): the sum of (x[i+1] - x[i]) * (y[i+1] + y[i]) / 2
RECURSIVE TrapzUpTo(_, _, _)
TrapzUpTo(y, x, n) ==
    IF n <= 1 THEN 0
    ELSE TrapzUpTo(y, x, n - 1) + ((x[n] - x[n - 1]) * (y[n] + y[n - 1])) \div 2

Trapz(y, x) == TrapzUpTo(y, x, Len(y))

\* the loop for i in range(4) of integrate over the points to_fit
AxesIntegratedAll == 1..NAxes
AxesIntegrated == 1..4

RECURSIVE SumTrapz(_, _, _, _)
SumTrapz(y, Q, to_fit, axes) ==
    IF axes = {} THEN 0
    ELSE SumTrapz(y, Q, to_fit, axes \ {SetMax(axes)})
         + Trapz(y, [j \in DOMAIN to_fit |-> Q[to_fit[j]][SetMax(axes)]])

\* the points integrate runs over: np.where(kwargs['bounds']), or all
ToFit(obj, kwargs) ==
    IF "bounds" \in DOMAIN kwargs THEN Where(kwargs.bounds)
    ELSE [i \in 1..Len(obj.Q) |-> i]

Integrated(obj, inten, to_fit, background) ==
    SumTrapz([j \in DOMAIN to_fit |-> inten[to_fit[j]] - background], obj.Q, to_fit,
             AxesIntegrated)

\* integrate once the background b = [self, ret, err] is known
IntegrateWith(b, kwargs) ==
    IF b.err # "none"
    THEN [self |-> b.self, ret |-> NoneVal, err |-> b.err]
    ELSE [self |-> AfterIntensity(b.self),
          ret |-> Integrated(b.self, Intensity(b.self).value, ToFit(b.self, kwargs), b.ret),
          err |-> "none"]

\* self.integrate(**kwargs): [self, ret, err].  With bounds numpy hands the
\* number back as an array of one element.
Integrate(obj, kwargs) ==
    IF "background" \in DOMAIN kwargs
    THEN IntegrateWith(BgEstimate(obj, kwargs.background), kwargs)
    ELSE IntegrateWith([self |-> obj, ret |-> 0, err |-> "none"], kwargs)

----------------------------------------------------------------------------
(* The measurement specification: reads of intensity and error, background
   estimates and integrals of one cloud *)

\* the rows of the cloud: square detector counts that the monitor and time
\* counts divide, one of them negative as after a subtraction
MeasureRows ==
    { [q |-> <<0, 0, 0, 0, 0>>, d |-> 4,  m |-> 1, t |-> 1],
      [q |-> <<1, 2, 0, 0, 5>>, d |-> 16, m |-> 2, t |-> 2],
      [q |-> <<2, 1, 3, 0, 7>>, d |-> 36, m |-> 2, t |-> 1],
      [q |-> <<1, 0, 1, 2, 9>>, d |-> -4, m |-> 1, t |-> 2] }

MeasureClouds ==
    {rs \in RowSeqs(MeasureRows, 1, MaxPoints) :
        \A i \in DOMAIN rs : \A j \in DOMAIN rs : i # j => rs[i] # rs[j]}

\* m0, t0 and time_norm given to the constructor
MeasureKwargs ==
    { NoKwargs, [m0 |-> 0], [m0 |-> 4], [time_norm |-> TRUE],
      [time_norm |-> TRUE, t0 |-> 0] }

BgParams ==
    { [type |-> "constant", value |-> 2], [type |-> "percent", value |-> 50],
      [type |-> "minimum"], [type |-> "median"] }

Masks(n) == [1..n -> BOOLEAN]

IntegrateKwargs(n) ==
    {NoKwargs} \cup {[bounds |-> mask] : mask \in Masks(n)}
    \cup {[background |-> bg] : bg \in BgParams}
    \cup {[bounds |-> mask, background |-> bg] :
             mask \in Masks(n), bg \in {b \in BgParams : b.type \in {"constant", "minimum"}}}

InitMeasure ==
    /\ \E rs \in MeasureClouds : \E kws \in MeasureKwargs :
          self = DataFromQ(DictOf(rs).Q, DictOf(rs).detector, DictOf(rs).monitor,
                           DictOf(rs).time, kws).obj
    /\ pre = self
    /\ InitCommon

\* a property or method of self was evaluated: r = [self, ret, err]
Evaluated(r, kwargs, name) ==
    /\ self' = r.self
    /\ ret' = r.ret
    /\ err' = r.err
    /\ kw' = kwargs
    /\ pre' = self
    /\ op' = name
    /\ UNCHANGED <<qstep, right, args, argsIn, locals, expr, pool>>

ReadIntensity ==
    /\ self # NoneVal
    /\ Evaluated([self |-> Intensity(self).self, ret |-> Intensity(self).value,
                  err |-> "none"], NoKwargs, "intensity")

ReadError ==
    /\ self # NoneVal
    /\ Evaluated([self |-> self, ret |-> Error(self), err |-> "none"], NoKwargs, "error")

CallBgEstimate ==
    /\ self # NoneVal
    /\ \E bg \in BgParams : Evaluated(BgEstimate(self, bg), bg, "bg_estimate")

CallIntegrate ==
    /\ self # NoneVal
    /\ \E kwargs \in IntegrateKwargs(Len(self.Q)) :
          Evaluated(Integrate(self, kwargs), kwargs, "integrate")

NextMeasure == ReadIntensity \/ ReadError \/ CallBgEstimate \/ CallIntegrate

SpecMeasure == InitMeasure /\ [][NextMeasure]_vars

----------------------------------------------------------------------------
(* Properties of the merge *)

\* a call that returned normally
Returned0(names) == op \in names /\ err = "none"

\* the cloud a merge call produced: the receiver (in place) or the new Data
Merged == IF op = "combine" THEN self ELSE ret

\* the rows of a cloud or dictionary: <<Q row, detector, monitor, time>>
RowsOf(c) == [i \in 1..Len(c.Q) |-> <<c.Q[i], c.detector[i], c.monitor[i], c.time[i]>>]

RECURSIVE FlatRows(_)
FlatRows(ds) == IF ds = << >> THEN << >> ELSE RowsOf(Head(ds)) \o FlatRows(Tail(ds))

\* every incoming row of the call, over all incoming sets, as passed
Incoming == FlatRows(argsIn)

\* the tolerance vector of the call
Tol == IF "tols" \in DOMAIN kw THEN kw.tols.arr ELSE <<50, 50, 50, 50, 50>>

\* |qe[a] - qi[a]| <= tol[a] on all five axes at once
Near(qe, qi) ==
    \A a \in 1..5 : qe[a] - qi[a] <= Tol[a] /\ qi[a] - qe[a] <= Tol[a]

\* an incoming row within tolerance of some row the receiver had
Matched(x) == \E j \in 1..Len(pre.Q) : Near(pre.Q[j], x[1])

Unmatched == SelectSeq(Incoming, LAMBDA x : ~Matched(x))

Count(seq, x) == Cardinality({i \in DOMAIN seq : seq[i] = x})

SameBag(s1, s2) ==
    /\ Len(s1) = Len(s2)
    /\ \A i \in DOMAIN s1 : Count(s1, s1[i]) = Count(s2, s1[i])

\* the sum of column col of the rows 1..n of inc within tolerance of row j
RECURSIVE SumNear(_, _, _, _)
SumNear(inc, j, col, n) ==
    IF n = 0 THEN 0
    ELSE SumNear(inc, j, col, n - 1)
         + (IF Near(pre.Q[j], inc[n][1]) THEN inc[n][col] ELSE 0)

\* the receiver's row j with the counts of its matching rows of inc added
FoldedWith(inc) ==
    [j \in 1..Len(pre.Q) |->
        <<pre.Q[j],
          pre.detector[j] + SumNear(inc, j, 2, Len(inc)),
          pre.monitor[j] + SumNear(inc, j, 3, Len(inc)),
          pre.time[j] + SumNear(inc, j, 4, Len(inc))>>]

Folded == FoldedWith(Incoming)

\* every row of rows is in merged at least as often as in rows
Holds(merged, rows) ==
    \A i \in DOMAIN rows : Count(merged, rows[i]) >= Count(rows, rows[i])

\* C1: combine_data folds an incoming point into a row of the receiver exactly
\* when the two are within tolerance on all five axes: the merged cloud's Q
\* rows are the receiver's rows plus the incoming rows that are within
\* tolerance of no row of the receiver, and each of those is a row of the
\* merged cloud with its own Q and counts.
C1_FoldExactlyWithinTolerance ==
    Returned0({"combine", "combine_ret", "add"}) =>
        /\ SameBag(Merged.Q, pre.Q \o [i \in 1..Len(Unmatched) |-> Unmatched[i][1]])
        /\ Holds(RowsOf(Merged), Unmatched)

\* (1,0,0,0,0) in the receiver, (1,0,0,0,0)+1e-5 and (1,0,0,0,1) incoming:
\* one row for the first two, a separate row for the third
C1_Witness ==
    /\ Returned0({"combine"})
    /\ "tols" \notin DOMAIN kw
    /\ pre.Q = << <<100000, 0, 0, 0, 0>> >>
    /\ Len(argsIn) = 1
    /\ argsIn[1].Q = << <<100001, 1, 1, 1, 1>>, <<100000, 0, 0, 0, 100000>> >>
    /\ self.Q = << <<100000, 0, 0, 0, 0>>, <<100000, 0, 0, 0, 100000>> >>

\* C2: every (incoming i, existing j) pair within tolerance adds i's detector,
\* monitor and time to row j: each row of the receiver is in the merged cloud
\* with the sums of the counts of all incoming rows matching it.
C2_AccumulatesCounts ==
    Returned0({"combine", "combine_ret", "add"}) =>
        Holds(RowsOf(Merged), Folded)

\* one row (detector 10, monitor 5) merged with one matching row (detector 3,
\* monitor 2) is one row (detector 13, monitor 7, time the sum)
C2_Witness ==
    /\ Returned0({"combine"})
    /\ Len(pre.Q) = 1 /\ pre.detector = <<10>> /\ pre.monitor = <<5>>
    /\ Len(Incoming) = 1 /\ Incoming[1][2] = 3 /\ Incoming[1][3] = 2
    /\ Len(self.Q) = 1 /\ self.detector = <<13>> /\ self.monitor = <<7>>
    /\ self.time = <<pre.time[1] + Incoming[1][4]>>

\* q1 before or equal to q2 in the order h, then k, l, e, temp
LexLeq(q1, q2) ==
    \/ q1 = q2
    \/ \E a \in 1..5 : q1[a] < q2[a] /\ \A b \in 1..(a - 1) : q1[b] = q2[b]

\* C3: after any call of combine_data the rows are in lexicographic order
\* (h, k, l, e, temp), and detector, monitor and time moved with their Q rows:
\* the rows of the result are the rows the merge loop left, reordered.
C3_CanonicalOrder ==
    Returned0({"combine", "combine_ret", "add", "sub"}) =>
        /\ \A i \in 1..(Len(Merged.Q) - 1) : LexLeq(Merged.Q[i], Merged.Q[i + 1])
        /\ SameBag(RowsOf(Merged), RowsOf(locals))

\* two incoming sets, one point folded, and the sort moved rows
C3_Witness ==
    /\ Returned0({"combine"})
    /\ Len(argsIn) = 2
    /\ Len(argsIn[1].Q) = 1 /\ Len(argsIn[2].Q) = 1
    /\ Len(self.Q) = 2
    /\ self.Q # locals.Q

\* C5: +, - and combine_data(ret=True) return a new cloud and leave the
\* receiver as it was, + and - leave the right operand as it was; the in-place
\* combine_data returns nothing and the receiver holds the merged rows.
C5_ReceiverFrame ==
    /\ Returned0({"combine_ret", "add", "sub"}) =>
          /\ self = pre
          /\ ret # NoneVal
          /\ SameBag(RowsOf(ret), RowsOf(locals))
    /\ Returned0({"add", "sub"}) => right = argsIn[1]
    /\ Returned0({"combine"}) =>
          /\ ret = NoneVal
          /\ SameBag(RowsOf(self), RowsOf(locals))

\* a + b folded a row of b into a row of a: a and b are as before, although
\* the dictionary made from b lost the folded row
C5_Witness ==
    /\ Returned0({"add"})
    /\ self = pre
    /\ right = argsIn[1]
    /\ ret.detector # pre.detector
    /\ Len(args[1].Q) < Len(right.Q)

\* an incoming object of the call lacks Q, detector, monitor or time
LacksField ==
    \E n \in DOMAIN argsIn : ~({"Q", "detector", "monitor", "time"} \subseteq DOMAIN argsIn[n])

\* the call was given a tolerance vector whose length is not 5
TolLengthNotFive ==
    "tols" \in DOMAIN kw /\ kw.tols # NoneVal /\ Len(kw.tols.arr) # 5

\* C6: a merge fails whenever an incoming object lacks a required field or
\* the tolerance vector's length is not 5, and a merge that fails leaves the
\* receiver's Q, detector, monitor and time as they were.
C6_FailsOnBadInput ==
    op # "init" =>
        /\ (LacksField \/ TolLengthNotFive) => err # "none"
        /\ err # "none" => RowsOf(self) = RowsOf(pre)

\* q1 strictly before q2 in the order h, then k, l, e, temp
LexLess(q1, q2) == q1 # q2 /\ LexLeq(q1, q2)

\* the rows of the three clouds, one cloud after the other
ChainRowsAll == RowsOf(argsIn[1]) \o RowsOf(argsIn[2]) \o RowsOf(argsIn[3])

\* the place of row i of rows in the sorted cloud; rows with equal Q
\* (which then belong to one cloud) keep the order they have in it
Place(rows, i) ==
    1 + Cardinality({j \in DOMAIN rows :
                        \/ LexLess(rows[j][1], rows[i][1])
                        \/ rows[j][1] = rows[i][1] /\ j < i})

SortedRows(rows) ==
    [r \in DOMAIN rows |-> rows[CHOOSE i \in DOMAIN rows : Place(rows, i) = r]]

Canonical == SortedRows(ChainRowsAll)

\* C4: for clouds A, B, C with no point of one within tolerance of a point of
\* another, every order and grouping of the sums gives the same cloud: the
\* rows of the three, sorted.
C4_OrderOfCombination ==
    (op \in {"left_first", "right_first"} /\ err = "none") => RowsOf(ret) = Canonical

\* C + (B + A) with two rows sharing one Q in one operand, where the result is
\* not the operands' rows in the order combined
C4_Witness ==
    /\ op = "right_first"
    /\ err = "none"
    /\ expr = <<3, 2, 1>>
    /\ \E i \in 1..3 : Len(argsIn[i].Q) = 2 /\ argsIn[i].Q[1] = argsIn[i].Q[2]
                       /\ argsIn[i].detector[1] # argsIn[i].detector[2]
    /\ RowsOf(ret) # RowsOf(argsIn[3]) \o RowsOf(argsIn[2]) \o RowsOf(argsIn[1])
    /\ RowsOf(ret) # ChainRowsAll

----------------------------------------------------------------------------
(* Properties of the binner *)

\* the grid description of the call, axis by axis
Triple(c) == <<kw.h, kw.k, kw.l, kw.e, kw.temp>>[c]

\* the samples an axis [a, b, n] is to contribute
Samples(c) ==
    IF Triple(c)[3] = 1
    THEN {(Triple(c)[1] + Triple(c)[2]) \div 2}
    ELSE {Triple(c)[1] + (i * (Triple(c)[2] - Triple(c)[1])) \div (Triple(c)[3] - 1) :
             i \in 0..(Triple(c)[3] - 1)}

\* every row of Q has in column c a member of S[c], and every combination of
\* members is a row of Q once
IsProduct(Q, S) ==
    /\ \A r \in DOMAIN Q : \A c \in Axes : Q[r][c] \in S[c]
    /\ \A combo \in S[1] \X S[2] \X S[3] \X S[4] \X S[5] :
          Cardinality({r \in DOMAIN Q : Q[r] = combo}) = 1

\* C7: the rows of the binned cloud are the Cartesian product of the samples
\* of the five axes, each combination once, so there are n_h*n_k*n_l*n_e*n_temp
\* rows and column c holds samples of axis c; an axis of count 1 over [a, b]
\* gives (a+b)/2 with step b-a, an axis of count n > 1 gives n evenly spaced
\* samples from a to b, both included.
C7_GridIsCartesianProduct ==
    op = "bin" =>
        /\ err = "none"
        /\ Len(ret.Q) = Triple(1)[3] * Triple(2)[3] * Triple(3)[3] * Triple(4)[3] * Triple(5)[3]
        /\ IsProduct(ret.Q, [c \in Axes |-> Samples(c)])
        /\ \A c \in Axes :
              IF Triple(c)[3] = 1
              THEN qstep[c] = Triple(c)[2] - Triple(c)[1]
              ELSE /\ Cardinality(Samples(c)) = Triple(c)[3]
                   /\ Triple(c)[1] \in Samples(c)
                   /\ Triple(c)[2] \in Samples(c)
                   /\ qstep[c] * (Triple(c)[3] - 1) = Triple(c)[2] - Triple(c)[1]
                   /\ \A x \in Samples(c) :
                         x = Triple(c)[2] \/ x + qstep[c] \in Samples(c)

\* a two by two grid over axes of different bounds, the other axes single
C7_Witness ==
    /\ op = "bin"
    /\ err = "none"
    /\ kw.h[3] = 2
    /\ kw.k[3] = 2
    /\ kw.k[2] # kw.h[2]
    /\ kw.temp[3] = 1
    /\ Len(ret.Q) = 4

\* the source points inside the window of grid row r on every axis
InCell(r) ==
    {i \in DOMAIN self.Q :
        \A c \in Axes : /\ ret.Q[r][c] - (qstep[c] \div 2) <= self.Q[i][c]
                        /\ self.Q[i][c] <= ret.Q[r][c] + (qstep[c] \div 2)}

RECURSIVE SumOver(_, _)
SumOver(S, arr) ==
    IF S = {} THEN 0
    ELSE LET i == CHOOSE x \in S : TRUE IN arr[i] + SumOver(S \ {i}, arr)

\* C8: a grid cell with a source point inside its window on all five axes
\* gets the means of detector, monitor and time over exactly the source
\* points inside the window on every axis.
C8_MeanOfFinalSubset ==
    op = "bin" =>
        \A r \in DOMAIN ret.Q :
            InCell(r) # {} =>
                /\ ret.detector[r] * Cardinality(InCell(r)) = SumOver(InCell(r), self.detector)
                /\ ret.monitor[r] * Cardinality(InCell(r)) = SumOver(InCell(r), self.monitor)
                /\ ret.time[r] * Cardinality(InCell(r)) = SumOver(InCell(r), self.time)

\* the three arrays of evaluating the rows of a grid one after the other
Sequential(Q) == BinParallel(self, qstep, Q)

\* the arrays of d are the values of cells, row by row
HasValues(d, cells) ==
    /\ d.monitor = [i \in DOMAIN cells |-> cells[i][1]]
    /\ d.detector = [i \in DOMAIN cells |-> cells[i][2]]
    /\ d.time = [i \in DOMAIN cells |-> cells[i][3]]

\* C9: the grid rows are split into one contiguous chunk per worker, every
\* row in exactly one chunk; the workers leave the source cloud as it was;
\* bin returns only when every chunk has been evaluated, and its arrays are
\* those of evaluating all rows sequentially in grid order, for every number
\* of workers and every order in which they finish.
C9_ParallelEqualsSequential ==
    /\ pool # NoneVal =>
          /\ Len(pool.chunks) = pool.nprocs
          /\ Concatenate(pool.chunks) = pool.Q
          /\ self = pre
    /\ op = "bin" =>
          /\ \A n \in 1..pool.nprocs : pool.outputs[n] # NoneVal
          /\ Len(pool.finished) = pool.nprocs
          /\ ret.Q = pool.Q
          /\ HasValues(ret, Sequential(pool.Q))

\* the worker of the last chunk finished first, and the cells differ
C9_Witness ==
    /\ op = "bin"
    /\ pool.nprocs > 1
    /\ Len(pool.Q) > pool.nprocs
    /\ pool.finished[1] = pool.nprocs
    /\ ret.detector[1] # ret.detector[Len(ret.detector)]
    /\ ret.detector[1] # NaN
    /\ ret.detector[Len(ret.detector)] # NaN

----------------------------------------------------------------------------
(* Properties of construction *)

\* the arguments of the constructor call that are arrays
ArrayInputs ==
    {x \in {argsIn[1].h, argsIn[1].k, argsIn[1].l, argsIn[1].e, argsIn[1].temp,
            argsIn[1].detector, argsIn[1].monitor, argsIn[1].time} : ~IsNumber(x)}

WellShaped(d) ==
    /\ \A r \in DOMAIN d.Q : Len(d.Q[r]) = NAxes
    /\ Len(d.detector) = Len(d.Q)
    /\ Len(d.monitor) = Len(d.Q)
    /\ Len(d.time) = Len(d.Q)

\* C10: a cloud that exists after a successful construction and scalings has
\* Q of shape N x 5 and detector, monitor and time of length N; construction
\* from per-axis inputs fails when two array inputs differ in length.
C10_ColumnsShareLength ==
    op \in {"ctor", "mul"} =>
        /\ err = "none" => WellShaped(ret)
        /\ (/\ argsIn[1].Q = NoneVal
            /\ \E x \in ArrayInputs : \E y \in ArrayInputs : Len(x.arr) # Len(y.arr))
           => err # "none"

\* the count arguments of the constructor call that were left at the default
Omitted == {f \in {"detector", "monitor", "time"} : IsNumber(argsIn[1][f])}

\* C11: a cloud built from a Q matrix of N rows with detector, monitor or
\* time left out exists, has zero arrays of length N for what was left out,
\* and has m0 and t0 at the maxima of monitor and time.
C11_QWithOmittedCounts ==
    (/\ op = "ctor"
     /\ argsIn[1].Q # NoneVal
     /\ Omitted # {}
     /\ \A f \in {"detector", "monitor", "time"} \ Omitted :
           Len(argsIn[1][f].arr) = Len(argsIn[1].Q.arr))
    => /\ err = "none"
       /\ \A f \in Omitted : ret[f] = [i \in 1..Len(argsIn[1].Q.arr) |-> 0]
       /\ ret.m0 = NanMax(ret.monitor)
       /\ ret.t0 = NanMax(ret.time)

----------------------------------------------------------------------------
(* Properties of the measurement *)

\* the reference value of a cloud, a zero replaced by the maximum of the column
Reference(obj) ==
    IF obj.time_norm
    THEN IF obj.t0 = 0 THEN NanMax(obj.time) ELSE obj.t0
    ELSE IF obj.m0 = 0 THEN NanMax(obj.monitor) ELSE obj.m0

\* the column the counts are normalized against
Against(obj) == IF obj.time_norm THEN obj.time ELSE obj.monitor

IntensityOf(obj) ==
    [i \in DOMAIN obj.detector |-> (obj.detector[i] \div Against(obj)[i]) * Reference(obj)]

ErrorOf(obj) ==
    [i \in DOMAIN obj.detector |->
        IF obj.detector[i] < 0 THEN NaN
        ELSE (Sqrt(obj.detector[i]) \div Against(obj)[i]) * Reference(obj)]

\* C12: intensity is detector/monitor*m0 (detector/time*t0 with time_norm)
\* and error is sqrt(detector) normalized with the same reference, a zero
\* reference replaced by the maximum of monitor (time) in both, whether or not
\* intensity was read before error.
C12_ErrorUsesSameReference ==
    /\ op = "intensity" => ret = IntensityOf(pre)
    /\ op = "error" => ret = ErrorOf(pre)

\* the intensities of a cloud that are not negative, in stored order
NonNegative(obj) == SelectSeq(IntensityOf(obj), LAMBDA v : v >= 0)

\* vals without its first element equal to v
RECURSIVE Without1(_, _)
Without1(vals, v) ==
    IF Head(vals) = v THEN Tail(vals) ELSE <<Head(vals)>> \o Without1(Tail(vals), v)

\* the sum of the n lowest elements of vals
RECURSIVE SumLowest(_, _)
SumLowest(vals, n) ==
    IF n = 0 THEN 0
    ELSE SeqMin(vals) + SumLowest(Without1(vals, SeqMin(vals)), n - 1)

\* how many values the lowest p percent of vals are
LowestCount(vals, p) == (Len(vals) * p) \div 100

\* C13: bg_estimate with percent(p) returns the average of the lowest p% of
\* the intensities that are not negative, for a cloud that has one and
\* 0 < p <= 100; it does not fail.
C13_PercentAveragesLowest ==
    (/\ op = "bg_estimate"
     /\ kw.type = "percent"
     /\ kw.value > 0 /\ kw.value <= 100
     /\ NonNegative(pre) # << >>)
    => /\ err = "none"
       /\ ret # NoneVal
       /\ LowestCount(NonNegative(pre), kw.value) > 0 =>
             ret * LowestCount(NonNegative(pre), kw.value)
                = SumLowest(NonNegative(pre), LowestCount(NonNegative(pre), kw.value))

\* C14: bg_estimate with minimum returns the minimum of the intensities that
\* are not negative, so never a negative background, also for a cloud with
\* negative detector counts.
C14_MinimumIsNotNegative ==
    (/\ op = "bg_estimate"
     /\ kw.type = "minimum"
     /\ NonNegative(pre) # << >>)
    => /\ err = "none"
       /\ ret = SeqMin(NonNegative(pre))
       /\ ret >= 0

\* the points of the call: all, or those where the mask holds
Selected == {i \in 1..Len(pre.Q) : "bounds" \notin DOMAIN kw \/ kw.bounds[i]}

\* the j-th selected point in stored order
Point(j) == CHOOSE i \in Selected : Cardinality({x \in Selected : x < i}) = j - 1

\* the background the call subtracts: what bg_estimate returns, 0 without one
Background ==
    IF "background" \notin DOMAIN kw THEN 0
    ELSE IF kw.background.type = "constant" THEN kw.background.value
    ELSE IF kw.background.type = "minimum" THEN SeqMin(IntensityOf(pre))
    ELSE 0

\* the trapezoid between the selected points j and j+1 against column a
Trapezoid(y, j, a) ==
    ((pre.Q[Point(j + 1)][a] - pre.Q[Point(j)][a])
        * ((y[Point(j + 1)] - Background) + (y[Point(j)] - Background))) \div 2

RECURSIVE SumTrapezoids(_, _, _)
SumTrapezoids(y, j, a) ==
    IF j <= 0 THEN 0 ELSE SumTrapezoids(y, j - 1, a) + Trapezoid(y, j, a)

\* the trapezoidal integral of y - Background against column a
AxisIntegral(y, a) == SumTrapezoids(y, Cardinality(Selected) - 1, a)

----------------------------------------------------------------------------
(* Properties of subtraction and of the matching *)

\* the rows of the right operand with the detector counts negated
Subtracted ==
    [i \in 1..Len(argsIn[1].Q) |->
        <<argsIn[1].Q[i], -argsIn[1].detector[i], argsIn[1].monitor[i], argsIn[1].time[i]>>]

\* C16: a - b merges b into a with b's detector counts negated: a row of a
\* gets the detector counts of the points of b matching it subtracted and
\* their monitor and time added, and a point of b matching no row of a is
\* appended with its detector count negated and its own monitor and time.
C16_SubtractNegatesDetector ==
    Returned0({"sub"}) =>
        /\ Holds(RowsOf(ret), FoldedWith(Subtracted))
        /\ Holds(RowsOf(ret), SelectSeq(Subtracted, LAMBDA x : ~Matched(x)))
        /\ Len(ret.Q) = Len(pre.Q) + Len(SelectSeq(Subtracted, LAMBDA x : ~Matched(x)))

\* (1,0,0,0,0) with detector 10 minus a cloud of the point 1e-5 away
\* (detector 3) and the point at another temp (detector 4)
C16_Witness ==
    /\ Returned0({"sub"})
    /\ RowsOf(pre) = << <<<<100000, 0, 0, 0, 0>>, 10, 5, 1>> >>
    /\ RowsOf(argsIn[1]) = << <<<<100001, 1, 1, 1, 1>>, 3, 2, 2>>,
                              <<<<100000, 0, 0, 0, 100000>>, 4, 1, 3>> >>
    /\ RowsOf(ret) = << <<<<100000, 0, 0, 0, 0>>, 7, 7, 3>>,
                        <<<<100000, 0, 0, 0, 100000>>, -4, 1, 3>> >>

\* the keyword arguments of the call without ret
InPlace(kwargs) == [f \in DOMAIN kwargs \ {"ret"} |-> kwargs[f]]

\* the receiver after combine_data was called in place once for each of the
\* first n incoming sets, one call after the other
RECURSIVE OneByOne(_, _, _, _)
OneByOne(obj, sets, kwargs, n) ==
    IF n = 0 THEN obj
    ELSE CombineData(OneByOne(obj, sets, kwargs, n - 1), <<sets[n]>>, kwargs).self

\* C17: with several incoming sets each set is matched against the cloud as
\* merged so far, so combine_data(A1, A2) gives the cloud that
\* combine_data(A1) followed by combine_data(A2) gives.
C17_SetsMatchMergedState ==
    Returned0({"combine", "combine_ret"}) =>
        RowsOf(Merged) = RowsOf(OneByOne(pre, argsIn, InPlace(kw), Len(argsIn)))

\* the receiver's rows that incoming row x is within tolerance of
RowsNear(x) == {j \in 1..Len(pre.Q) : Near(pre.Q[j], x[1])}

\* the incoming rows (by position) within tolerance of the receiver's row j
PointsNear(inc, j) == {i \in DOMAIN inc : Near(pre.Q[j], inc[i][1])}

\* merged is, as a bag of rows, the folded rows together with the rest
FoldedAndRest(merged, folded, rest) ==
    /\ SameBag(merged, folded \o rest)
    /\ Len(merged) = Len(folded) + Len(rest)

\* C18: matching is many-to-many without deduplication: an incoming point
\* within tolerance of k rows adds its counts to each of the k, several
\* incoming points within tolerance of one row all add to it, a point that
\* matched is dropped from its set once and the other points are appended as
\* they are.  So the merged cloud is exactly the receiver's rows, each with the
\* counts of all its matching incoming points added, and the incoming rows
\* that matched nothing.
C18_ManyToManyMatching ==
    Returned0({"combine", "combine_ret", "add"}) =>
        FoldedAndRest(RowsOf(Merged), Folded, Unmatched)

\* two rows of the receiver and one incoming point within tolerance of both:
\* two rows, each with the point's counts added, and the point not appended
C18_Witness ==
    /\ Returned0({"combine"})
    /\ Len(pre.Q) = 2 /\ pre.Q[1] # pre.Q[2]
    /\ Len(Incoming) = 1
    /\ RowsNear(Incoming[1]) = {1, 2}
    /\ Unmatched = << >>
    /\ Len(self.Q) = 2
    /\ \A j \in 1..2 : \E i \in 1..2 :
        /\ self.Q[i] = pre.Q[j]
        /\ self.detector[i] = pre.detector[j] + Incoming[1][2]
        /\ self.monitor[i] = pre.monitor[j] + Incoming[1][3]
        /\ self.time[i] = pre.time[j] + Incoming[1][4]

----------------------------------------------------------------------------
(* Properties of the binner's windows *)

\* the source points inside [cell - step/2, cell + step/2) of grid row r on
\* every axis
InHalfOpen(r) ==
    {i \in DOMAIN self.Q :
        \A c \in Axes : /\ ret.Q[r][c] - (qstep[c] \div 2) <= self.Q[i][c]
                        /\ self.Q[i][c] < ret.Q[r][c] + (qstep[c] \div 2)}

\* the three values of grid row r are the means over the source points S
MeansOver(r, S) ==
    /\ ret.detector[r] * Cardinality(S) = SumOver(S, self.detector)
    /\ ret.monitor[r] * Cardinality(S) = SumOver(S, self.monitor)
    /\ ret.time[r] * Cardinality(S) = SumOver(S, self.time)

\* C19: the window of a cell on an axis is [cell - step/2, cell + step/2): a
\* source point at exactly cell + step/2 on an axis is not averaged into the
\* cell.  Stated for a cell whose windows, upper edges included, hold every
\* source point: its values are the means over the points below the upper
\* edge on every axis, when there is one.
C19_WindowIsHalfOpen ==
    op = "bin" =>
        \A r \in DOMAIN ret.Q :
            (InCell(r) = DOMAIN self.Q /\ InHalfOpen(r) # {}) =>
                MeansOver(r, InHalfOpen(r))

\* the points of S inside the window of grid row r on axis c
InWindow(S, r, c) ==
    {i \in S : /\ ret.Q[r][c] - (qstep[c] \div 2) <= self.Q[i][c]
               /\ self.Q[i][c] <= ret.Q[r][c] + (qstep[c] \div 2)}

\* S narrowed to the window on axis c, or S itself when the window holds no
\* point of S
Kept(S, W) == IF W = {} THEN S ELSE W

\* the subset of the source points grid row r is left with after the axes 1..c
RECURSIVE Carried(_, _)
Carried(r, c) ==
    IF c = 0 THEN DOMAIN self.Q
    ELSE Kept(Carried(r, c - 1), InWindow(Carried(r, c - 1), r, c))

\* C20: a window that holds no point of the working subset leaves the subset
\* as it was, on each of the five axes, temp included, and the values of a
\* cell are the means over the subset it is left with: never the mean of an
\* empty set.
C20_EmptyWindowKeepsSubset ==
    op = "bin" =>
        \A r \in DOMAIN ret.Q :
            /\ ret.detector[r] # NaN /\ ret.monitor[r] # NaN /\ ret.time[r] # NaN
            /\ MeansOver(r, Carried(r, NAxes))

----------------------------------------------------------------------------
(* Properties of the merge: conservation and the frame of the references *)

\* a call with one incoming set, each of its points within tolerance of at
\* most one row the receiver had
AtMostOneMatch ==
    /\ Len(argsIn) = 1
    /\ \A i \in DOMAIN Incoming : Cardinality(RowsNear(Incoming[i])) <= 1

\* the sum of a column over the merged cloud is the sum over the receiver
\* plus the sum over the incoming set
Conserved(merged, before, incoming) == SeqSum(merged) = SeqSum(before) + SeqSum(incoming)

\* C21: a merge of one incoming set whose points are each within tolerance of
\* at most one existing row conserves the counts: the sums of detector, of
\* monitor and of time over the merged cloud are the sums over the receiver
\* plus those over the incoming set; the merged cloud has the receiver's
\* number of rows plus the number of unmatched incoming points, and the
\* receiver's Q rows are rows of the merged cloud.
C21_CountsConserved ==
    (Returned0({"combine", "combine_ret", "add"}) /\ AtMostOneMatch) =>
        /\ Conserved(Merged.detector, pre.detector, argsIn[1].detector)
        /\ Conserved(Merged.monitor, pre.monitor, argsIn[1].monitor)
        /\ Conserved(Merged.time, pre.time, argsIn[1].time)
        /\ Len(Merged.Q) = Len(pre.Q) + Len(Unmatched)
        /\ Holds(Merged.Q, pre.Q)

\* one row of the receiver, an incoming point within tolerance of it and an
\* incoming point within tolerance of none: two rows, the sums conserved
C21_Witness ==
    /\ Returned0({"combine"})
    /\ AtMostOneMatch
    /\ Len(pre.Q) = 1
    /\ Len(Incoming) = 2
    /\ Len(Unmatched) = 1
    /\ Len(self.Q) = 2
    /\ pre.Q[1] \in {self.Q[1], self.Q[2]}
    /\ Incoming[1][1] # pre.Q[1] /\ Incoming[2][1] # pre.Q[1]
    /\ SeqSum(self.time) = pre.time[1] + Incoming[1][4] + Incoming[2][4]

\* the reference a read of intensity multiplies by, for the receiver as the
\* merge left it, normalized to monitor or (time_norm set) to time
ReferenceRead(norm) ==
    IF norm THEN AfterIntensity([self EXCEPT !.time_norm = TRUE]).t0
    ELSE AfterIntensity([self EXCEPT !.time_norm = FALSE]).m0

====
